---- MODULE Spec2Model ----
(***************************************************************************)
(* Model of the mesh-mapper ingestion worker (mqtt_worker.py): the two     *)
(* packet decoders, the per-message handler on_message, the store          *)
(* connection start-up init_db, the relational write save_event_to_db and  *)
(* the shutdown of mqtt_loop.                                              *)
(*                                                                         *)
(* Python values are tagged records, so that None, 0, 0.0, "" and a        *)
(* missing key stay distinct: [none |-> TRUE], [int |-> n], [float |-> n], *)
(* [str |-> s], [bool |-> b].  A float x is held as the integer x * 10^7   *)
(* (degrees and dB both), a string as the sequence of its characters (a    *)
(* fixed text such as an error message is one token), a dict as a function *)
(* from key strings to values.                                             *)
(***************************************************************************)
EXTENDS Integers, Sequences, FiniteSets, TLC

VARIABLES
    attempt,      \* loop variable of init_db (0 outside init_db)
    db_pool,      \* the module global db_pool: "None" or "pool"
    gave_up,      \* console: line 175 has printed "Failed to connect ..."
    pc,           \* position of mqtt_loop
    now,          \* the wall clock, in seconds
    raw_log,      \* lines of LOG_PATH
    decoded_log,  \* lines of DECODED_LOG_PATH
    events_log,   \* lines of HEX_EVENTS_PATH
    dispatches,   \* history: one record per on_message call
    tasks,        \* save_event_to_db coroutines scheduled on the event loop
    events,       \* rows of the events table
    devices,      \* rows of the devices table, keyed by node_id
    formatted     \* the last call of format_node_id made on its own

vars == <<attempt, db_pool, gave_up, pc, now, raw_log, decoded_log, events_log,
          dispatches, tasks, events, devices, formatted>>

----------------------------------------------------------------------------
(* Bounds of the model.                                                    *)

MaxMsgs == 2

MaxTasks == 2

MaxSeq == 3

----------------------------------------------------------------------------
(* Python values.                                                          *)

PyNone == [none |-> TRUE]

PyInt(n) == [int |-> n]

PyFloat(n) == [float |-> n]

PyStr(s) == [str |-> s]

PyBool(b) == [bool |-> b]

IsNone(v) == "none" \in DOMAIN v

IsInt(v) == "int" \in DOMAIN v

IsFloat(v) == "float" \in DOMAIN v

IsStr(v) == "str" \in DOMAIN v

IsBool(v) == "bool" \in DOMAIN v

IsNumber(v) == IsInt(v) \/ IsFloat(v) \/ IsBool(v)

\* Python truth value of v (`if v`, `a and b`).
Truthy(v) ==
    IF IsNone(v) THEN FALSE
    ELSE IF IsInt(v) THEN v.int # 0
    ELSE IF IsFloat(v) THEN v.float # 0
    ELSE IF IsStr(v) THEN Len(v.str) > 0
    ELSE IF IsBool(v) THEN v.bool
    ELSE DOMAIN v # {}

\* `x if x else None`
OrNone(v) == IF Truthy(v) THEN v ELSE PyNone

\* dict.get(key)
Get(d, key) == IF key \in DOMAIN d THEN d[key] ELSE PyNone

\* dict.get(key, default)
GetOr(d, key, default) == IF key \in DOMAIN d THEN d[key] ELSE default

----------------------------------------------------------------------------
(* format_node_id                                                          *)

HexDigit(d) ==
    <<"0","1","2","3","4","5","6","7","8","9","a","b","c","d","e","f">>[d + 1]

RECURSIVE HexDigits(_)
\* The lowercase hexadecimal digits of n, most significant first.
HexDigits(n) ==
    IF n < 16 THEN <<HexDigit(n)>>
    ELSE Append(HexDigits(n \div 16), HexDigit(n % 16))

RECURSIVE ZeroPad(_, _)
\* The format width: pad on the left with "0" up to w characters.
ZeroPad(s, w) == IF Len(s) >= w THEN s ELSE ZeroPad(<<"0">> \o s, w)

\* format_node_id has not been called.
NotCalled == [node_id_int |-> -1, result |-> PyNone]

format_node_id(node_id_int) ==
    IF node_id_int = 0 THEN PyNone
    ELSE PyStr(<<"!">> \o ZeroPad(HexDigits(node_id_int), 8))

----------------------------------------------------------------------------
(* Payload bytes.  A payload is what the bytes parse to: [pb |-> envelope] *)
(* is a well-formed ServiceEnvelope, [json |-> value] well-formed JSON     *)
(* text and [garbage |-> TRUE] bytes that are neither.  A protobuf field   *)
(* left off the wire reads as its default (0, "", absent sub-message).     *)

POSITION_APP == 3

TELEMETRY_APP == 67

TEXT_MESSAGE_APP == 1

\* ServiceEnvelope.ParseFromString: google.protobuf raises DecodeError on
\* bytes that are no envelope.
ParseEnvelope(payload) ==
    IF "pb" \in DOMAIN payload THEN [ok |-> TRUE, msg |-> payload.pb]
    ELSE [ok |-> FALSE, error |-> "DecodeError"]

\* ServiceEnvelope.ListFields(): the populated fields, in field-number
\* order (packet = 1, channel_id = 2, gateway_id = 3), as <<name, value>>.
ListFields(env) ==
    (IF env.has_packet THEN <<(<<"packet", [message |-> env.packet]>>)>> ELSE <<>>)
    \o (IF Len(env.channel_id) > 0
        THEN <<(<<"channel_id", PyStr(env.channel_id)>>)>> ELSE <<>>)
    \o (IF Len(env.gateway_id) > 0
        THEN <<(<<"gateway_id", PyStr(env.gateway_id)>>)>> ELSE <<>>)

\* str.startswith('!')
StartsWithBang(s) == Len(s) > 0 /\ s[1] = "!"

\* ResolveNodeId with the gateway id taken from the last populated field,
\* however few fields there are.
ResolveNodeIdLastField(env) ==
    LET packet == env.packet
        fields == ListFields(env)
    IN
    IF packet.from_node # 0 THEN format_node_id(packet.from_node)
    ELSE IF Len(fields) >= 1
    THEN LET gateway_id == fields[Len(fields)][2]
         IN
         IF Truthy(gateway_id) /\ IsStr(gateway_id) /\ StartsWithBang(gateway_id.str)
         THEN gateway_id ELSE PyNone
    ELSE PyNone

\* Lines 38-57: the node id of a packet, or None.
ResolveNodeId(env) ==
    LET packet == env.packet
        fields == ListFields(env)
    IN
    IF packet.from_node # 0 THEN format_node_id(packet.from_node)
    ELSE IF Len(fields) >= 3
    THEN LET gateway_id == fields[3][2]
         IN
         IF Truthy(gateway_id) /\ IsStr(gateway_id) /\ StartsWithBang(gateway_id.str)
         THEN gateway_id ELSE PyNone
    ELSE PyNone

\* mesh_pb2.Position().ParseFromString(packet.decoded.payload)
ParsePosition(bytes) ==
    IF "position" \in DOMAIN bytes THEN [ok |-> TRUE, msg |-> bytes.position]
    ELSE [ok |-> FALSE, error |-> "DecodeError"]

\* telemetry_pb2.Telemetry().ParseFromString(packet.decoded.payload)
ParseTelemetry(bytes) ==
    IF "telemetry" \in DOMAIN bytes THEN [ok |-> TRUE, msg |-> bytes.telemetry]
    ELSE [ok |-> FALSE, error |-> "DecodeError"]

\* DecodePositionPort without the try of line 82: the parse error of the
\* nested message reaches line 124.
DecodePositionPortFatal(decoded, bytes) ==
    LET r == ParsePosition(bytes)
    IN
    IF ~r.ok THEN [error |-> PyStr(<<"Error parsing message: ", r.error>>)]
    ELSE LET pos == r.msg
             lat == IF pos.latitude_i # 0 THEN PyFloat(pos.latitude_i) ELSE PyNone
             lon == IF pos.longitude_i # 0 THEN PyFloat(pos.longitude_i) ELSE PyNone
         IN
         IF Truthy(lat) /\ Truthy(lon) /\ lat.float # 0 /\ lon.float # 0
         THEN ("position" :> [latitude |-> lat,
                              longitude |-> lon,
                              altitude |-> OrNone(PyInt(pos.altitude)),
                              time |-> OrNone(PyInt(pos.time))]) @@ decoded
         ELSE decoded

\* Lines 81-96: the Position port.
DecodePositionPort(decoded, bytes) ==
    LET r == ParsePosition(bytes)
    IN
    IF ~r.ok THEN decoded
    ELSE LET pos == r.msg
             lat == IF pos.latitude_i # 0 THEN PyFloat(pos.latitude_i) ELSE PyNone
             lon == IF pos.longitude_i # 0 THEN PyFloat(pos.longitude_i) ELSE PyNone
         IN
         IF Truthy(lat) /\ Truthy(lon) /\ lat.float # 0 /\ lon.float # 0
         THEN ("position" :> [latitude |-> lat,
                              longitude |-> lon,
                              altitude |-> OrNone(PyInt(pos.altitude)),
                              time |-> OrNone(PyInt(pos.time))]) @@ decoded
         ELSE decoded

\* Lines 99-114: the Telemetry port.
DecodeTelemetryPort(decoded, bytes) ==
    LET r == ParseTelemetry(bytes)
    IN
    IF ~r.ok THEN decoded
    ELSE LET telemetry == r.msg
             base == [time |-> OrNone(PyInt(telemetry.time))]
         IN
         ("telemetry" :>
            (IF telemetry.has_device_metrics
             THEN ("device_metrics" :> telemetry.device_metrics) @@ base
             ELSE base)) @@ decoded

\* Lines 117-121: bytes.decode('utf-8', errors='ignore') drops the bytes
\* that are no UTF-8; a payload of any kind decodes.
DecodeTextPort(decoded, bytes) ==
    ("text" :> PyStr(IF "text" \in DOMAIN bytes THEN bytes.text ELSE <<>>)) @@ decoded

decode_protobuf_packet(payload) ==
    LET r == ParseEnvelope(payload)
    IN
    IF ~r.ok THEN [error |-> PyStr(<<"Error parsing message: ", r.error>>)]
    ELSE
    LET service_envelope == r.msg
        packet == service_envelope.packet
        node_id == ResolveNodeId(service_envelope)
        decoded == [
            id |-> OrNone(PyInt(packet.id)),
            from |-> node_id,
            to |-> IF packet.to_node # 0 THEN format_node_id(packet.to_node) ELSE PyNone,
            channel |-> PyInt(packet.channel),
            rx_time |-> OrNone(PyInt(packet.rx_time)),
            rx_snr |-> IF packet.has_rx_snr THEN PyFloat(packet.rx_snr) ELSE PyNone,
            rx_rssi |-> IF packet.has_rx_rssi THEN PyInt(packet.rx_rssi) ELSE PyNone,
            hop_limit |-> OrNone(PyInt(packet.hop_limit)),
            hop_start |-> OrNone(PyInt(packet.hop_start)),
            want_ack |-> PyBool(packet.want_ack)]
    IN
    IF ~Truthy(node_id) THEN [error |-> PyStr(<<"from_node">>)]
    ELSE IF ~packet.has_decoded THEN decoded
    ELSE
    LET with_port == ("port_num" :> PyInt(packet.decoded.portnum)) @@ decoded
        bytes == packet.decoded.payload
    IN
    IF packet.decoded.portnum = POSITION_APP THEN DecodePositionPort(with_port, bytes)
    ELSE IF packet.decoded.portnum = TELEMETRY_APP
    THEN DecodeTelemetryPort(with_port, bytes)
    ELSE IF packet.decoded.portnum = TEXT_MESSAGE_APP
    THEN DecodeTextPort(with_port, bytes)
    ELSE with_port

----------------------------------------------------------------------------
(* decode_json_packet                                                      *)

\* json.loads(payload): raises on text that is no JSON.
JsonLoads(payload) ==
    IF "json" \in DOMAIN payload THEN [ok |-> TRUE, data |-> payload.json]
    ELSE [ok |-> FALSE, error |-> "JSONDecodeError"]

decode_json_packet(payload) ==
    LET r == JsonLoads(payload)
    IN
    IF ~r.ok THEN [error |-> PyStr(<<r.error>>)]
    \* data.get on a JSON value that is no object raises AttributeError
    ELSE IF "object" \notin DOMAIN r.data THEN [error |-> PyStr(<<"AttributeError">>)]
    ELSE
    LET data == r.data.object
        decoded == [
            id |-> Get(data, "id"),
            from |-> Get(data, "from"),
            to |-> Get(data, "to"),
            channel |-> Get(data, "channel"),
            type |-> Get(data, "type"),
            sender |-> Get(data, "sender"),
            timestamp |-> Get(data, "timestamp"),
            rssi |-> Get(data, "rssi"),
            snr |-> Get(data, "snr"),
            hop_limit |-> Get(data, "hop_limit"),
            hop_start |-> Get(data, "hop_start"),
            hops_away |-> Get(data, "hops_away")]
    IN
    IF "latitude" \in DOMAIN data /\ "longitude" \in DOMAIN data
    THEN ("position" :> [latitude |-> Get(data, "latitude"),
                         longitude |-> Get(data, "longitude"),
                         altitude |-> Get(data, "altitude")]) @@ decoded
    ELSE decoded

----------------------------------------------------------------------------
(* on_message                                                              *)

H3_RESOLUTION == 8

\* `"/seg/" in topic`: the topic, split at "/", has seg as an inner segment.
HasSegment(topic, seg) == \E i \in 2..(Len(topic) - 1) : topic[i] = seg

\* time.strftime("%Y-%m-%d %H:%M:%S", time.gmtime())
strftime(t) == PyStr(<<"utc", t>>)

\* bytes.hex()
hex(payload) == PyStr(<<"hex", payload>>)

\* json.dumps(obj, ensure_ascii=False)
json_dumps(obj) == PyStr(<<"json", obj>>)

\* The number a float-convertible value stands for, in units of 10^-7.
AsE7(v) ==
    IF IsFloat(v) THEN v.float
    ELSE IF IsInt(v) THEN v.int * 10000000
    ELSE IF v.bool THEN 10000000 ELSE 0

\* h3.geo_to_h3(lat, lon, resolution): a TypeError on an argument that is
\* no number; otherwise the identifier of the cell that holds the point,
\* a function of the arguments alone (here cells of 0.01 degree).
geo_to_h3(lat, lon, resolution) ==
    IF ~(IsNumber(lat) /\ IsNumber(lon)) THEN [ok |-> FALSE, error |-> "TypeError"]
    ELSE [ok |-> TRUE,
          cell |-> PyStr(<<"cell", AsE7(lat) \div 100000, AsE7(lon) \div 100000,
                           resolution>>)]

\* Decode with a module-level latch: once a decode has failed, no later
\* message is decoded.
DecodeLatched(msg) ==
    IF \E k \in 1..Len(dispatches) : "error" \in DOMAIN dispatches[k].decoded
    THEN PyNone
    ELSE IF HasSegment(msg.topic, "json") THEN decode_json_packet(msg.payload)
    ELSE IF HasSegment(msg.topic, "e") \/ HasSegment(msg.topic, "c")
    THEN decode_protobuf_packet(msg.payload)
    ELSE PyNone

\* Decode with the two tests of lines 246 and 248 in the other order.
DecodeBinaryFirst(msg) ==
    IF HasSegment(msg.topic, "e") \/ HasSegment(msg.topic, "c")
    THEN decode_protobuf_packet(msg.payload)
    ELSE IF HasSegment(msg.topic, "json") THEN decode_json_packet(msg.payload)
    ELSE PyNone

\* Lines 246-249: the decoder the topic selects; None when there is none.
Decode(msg) ==
    IF HasSegment(msg.topic, "json") THEN decode_json_packet(msg.payload)
    ELSE IF HasSegment(msg.topic, "e") \/ HasSegment(msg.topic, "c")
    THEN decode_protobuf_packet(msg.payload)
    ELSE PyNone

\* HasPosition without the truth tests on the coordinates.
HasPositionKeyOnly(decoded) == "position" \in DOMAIN decoded

\* Line 259: the guard of the event branch.
HasPosition(decoded) ==
    /\ "position" \in DOMAIN decoded
    /\ Truthy(Get(decoded["position"], "latitude"))
    /\ Truthy(Get(decoded["position"], "longitude"))

\* Lines 268-282: the event dict.
BuildEvent(msg, decoded, t, hex_id) ==
    [timestamp |-> PyInt(t),
     timestamp_iso |-> strftime(t),
     node_id |-> Get(decoded, "from"),
     hex_id |-> hex_id,
     latitude |-> decoded["position"]["latitude"],
     longitude |-> decoded["position"]["longitude"],
     altitude |-> Get(decoded["position"], "altitude"),
     packet_type |-> GetOr(decoded, "port_num", PyStr(<<"unknown">>)),
     rssi |-> Get(decoded, "rx_rssi"),
     snr |-> Get(decoded, "rx_snr"),
     hop_limit |-> Get(decoded, "hop_limit"),
     topic |-> msg.topic,
     raw_payload |-> hex(msg.payload)]

\* The thread that runs asyncio.run(mqtt_loop()) and with it the event loop.
MainThread == "MainThread"

\* The thread client.loop_start() starts; paho calls on_message on it.
CallbackThread == "paho-mqtt-client"

\* asyncio.get_running_loop(), as asyncio.create_task calls it: a loop runs
\* in the thread that called asyncio.run and in no other.
HasRunningLoop(thread) == thread = MainThread

\* TryEmit with lines 290-291 ahead of the event-log append of lines
\* 285-287.
TryEmitDispatchFirst(msg, decoded, t, pool, io, h) ==
    IF ~h.ok
    THEN [event |-> PyNone, event_lines |-> <<>>, created |-> <<>>, caught |-> h.error]
    ELSE IF pool = "pool" /\ ~HasRunningLoop(CallbackThread)
    THEN [event |-> BuildEvent(msg, decoded, t, h.cell), event_lines |-> <<>>,
          created |-> <<>>, caught |-> "RuntimeError"]
    ELSE IF io # "ok"
    THEN [event |-> BuildEvent(msg, decoded, t, h.cell), event_lines |-> <<>>,
          created |-> IF pool = "pool" THEN <<BuildEvent(msg, decoded, t, h.cell)>>
                      ELSE <<>>,
          caught |-> io]
    ELSE [event |-> BuildEvent(msg, decoded, t, h.cell),
          event_lines |-> <<json_dumps(BuildEvent(msg, decoded, t, h.cell))>>,
          created |-> IF pool = "pool" THEN <<BuildEvent(msg, decoded, t, h.cell)>>
                      ELSE <<>>,
          caught |-> "none"]

\* TryEmit without the `if db_pool:` of line 290.
TryEmitNoPoolCheck(msg, decoded, t, pool, io, h) ==
    IF ~h.ok
    THEN [event |-> PyNone, event_lines |-> <<>>, created |-> <<>>, caught |-> h.error]
    ELSE IF io # "ok"
    THEN [event |-> BuildEvent(msg, decoded, t, h.cell), event_lines |-> <<>>,
          created |-> <<>>, caught |-> io]
    ELSE IF HasRunningLoop(CallbackThread)
    THEN [event |-> BuildEvent(msg, decoded, t, h.cell),
          event_lines |-> <<json_dumps(BuildEvent(msg, decoded, t, h.cell))>>,
          created |-> <<BuildEvent(msg, decoded, t, h.cell)>>, caught |-> "none"]
    ELSE [event |-> BuildEvent(msg, decoded, t, h.cell),
          event_lines |-> <<json_dumps(BuildEvent(msg, decoded, t, h.cell))>>,
          created |-> <<>>, caught |-> "RuntimeError"]

\* Lines 264-297, the try block, entered with a decoded packet that has a
\* position: the event built, the event-log line, the task created on the
\* event loop, and the exception the except clause catches.  io is how the
\* event-log append ends ("ok" or "OSError").
TryEmit(msg, decoded, t, pool, io, h) ==
    IF ~h.ok
    THEN [event |-> PyNone, event_lines |-> <<>>, created |-> <<>>, caught |-> h.error]
    ELSE IF io # "ok"
    THEN [event |-> BuildEvent(msg, decoded, t, h.cell), event_lines |-> <<>>,
          created |-> <<>>, caught |-> io]
    ELSE IF pool = "None"
    THEN [event |-> BuildEvent(msg, decoded, t, h.cell),
          event_lines |-> <<json_dumps(BuildEvent(msg, decoded, t, h.cell))>>,
          created |-> <<>>, caught |-> "none"]
    ELSE IF HasRunningLoop(CallbackThread)
    THEN [event |-> BuildEvent(msg, decoded, t, h.cell),
          event_lines |-> <<json_dumps(BuildEvent(msg, decoded, t, h.cell))>>,
          created |-> <<BuildEvent(msg, decoded, t, h.cell)>>, caught |-> "none"]
    ELSE [event |-> BuildEvent(msg, decoded, t, h.cell),
          event_lines |-> <<json_dumps(BuildEvent(msg, decoded, t, h.cell))>>,
          created |-> <<>>, caught |-> "RuntimeError"]

\* Lines 251-297: what on_message does with the result of the decoder.
LogAndEmit(msg, decoded, t, pool, io) ==
    IF ~Truthy(decoded)
    THEN [decoded_lines |-> <<>>, event |-> PyNone, event_lines |-> <<>>,
          created |-> <<>>, caught |-> "none"]
    ELSE IF ~HasPosition(decoded)
    THEN [decoded_lines |-> <<(<<strftime(t), msg.topic, json_dumps(decoded)>>)>>,
          event |-> PyNone, event_lines |-> <<>>, created |-> <<>>, caught |-> "none"]
    ELSE [decoded_lines |-> <<(<<strftime(t), msg.topic, json_dumps(decoded)>>)>>]
         @@ TryEmit(msg, decoded, t, pool, io,
                    geo_to_h3(decoded["position"]["latitude"],
                              decoded["position"]["longitude"], H3_RESOLUTION))

\* on_message with the raw-log append of lines 238-242 moved behind the
\* decoding and made only for a message that decoded.
on_message_raw_after_decode(msg, t, pool, io) ==
    [msg |-> msg, pool |-> pool, io |-> io, t |-> t,
     raw |-> IF Truthy(Decode(msg)) /\ "error" \notin DOMAIN Decode(msg)
             THEN <<(<<strftime(t), msg.topic, hex(msg.payload)>>)>>
             ELSE <<>>,
     decoded |-> Decode(msg)]
    @@ LogAndEmit(msg, Decode(msg), t, pool, io)

\* What one call of on_message does with msg at clock value t, the store
\* handle being pool: the raw-log line, the result of the decoder, and what
\* follows from it.
on_message(msg, t, pool, io) ==
    [msg |-> msg, pool |-> pool, io |-> io, t |-> t,
     raw |-> <<(<<strftime(t), msg.topic, hex(msg.payload)>>)>>,
     decoded |-> Decode(msg)]
    @@ LogAndEmit(msg, Decode(msg), t, pool, io)

----------------------------------------------------------------------------
(* The messages the bus delivers: a representative of every case of the    *)
(* decoders and of on_message.                                             *)

\* A MeshPacket with every field at its protobuf default.
DefaultPacket ==
    [id |-> 0, from_node |-> 0, to_node |-> 0, channel |-> 0, rx_time |-> 0,
     has_rx_snr |-> FALSE, rx_snr |-> 0, has_rx_rssi |-> FALSE, rx_rssi |-> 0,
     hop_limit |-> 0, hop_start |-> 0, want_ack |-> FALSE,
     has_decoded |-> FALSE, decoded |-> [portnum |-> 0, payload |-> [text |-> <<>>]]]

FixBytes(lat_i, lon_i, alt) ==
    [position |-> [latitude_i |-> lat_i, longitude_i |-> lon_i, altitude |-> alt,
                   time |-> 0]]

\* from = 0x12345678, a Position at 40.7128, -74.0060, altitude 10.
BasePacket ==
    [DefaultPacket EXCEPT
        !.id = 7, !.from_node = 305419896, !.hop_limit = 3, !.hop_start = 3,
        !.has_decoded = TRUE,
        !.decoded = [portnum |-> POSITION_APP,
                     payload |-> FixBytes(407128000, -740060000, 10)]]

Envelope(has_packet, packet, channel_id, gateway_id) ==
    [pb |-> [has_packet |-> has_packet, packet |-> packet,
             channel_id |-> channel_id, gateway_id |-> gateway_id]]

LongFast == <<"L", "F">>

GatewayBang == <<"!", "a", "a", "b", "b", "c", "c", "d", "d">>

GatewayPlain == <<"a", "a", "b", "b">>

WithPort(portnum, bytes) ==
    [BasePacket EXCEPT !.decoded = [portnum |-> portnum, payload |-> bytes]]

\* Envelopes that differ in how the node id resolves.
IdentityPayloads ==
    { Envelope(TRUE, [BasePacket EXCEPT !.from_node = f], c, g) :
        f \in {0, 305419896}, c \in {<<>>, LongFast}, g \in {<<>>, GatewayBang} }
    \cup { Envelope(TRUE, [BasePacket EXCEPT !.from_node = 0], LongFast, GatewayPlain),
           Envelope(FALSE, DefaultPacket, LongFast, GatewayBang) }

\* Envelopes that differ in the position fix.
FixPayloads ==
    { Envelope(TRUE, WithPort(POSITION_APP, FixBytes(la, lo, 10)), LongFast, <<>>) :
        la \in {0, 407128000}, lo \in {0, -740060000} }
    \cup { Envelope(TRUE,
                    [WithPort(POSITION_APP, FixBytes(407128000, -740060000, 0))
                        EXCEPT !.hop_limit = 0, !.hop_start = 0],
                    LongFast, <<>>),
           Envelope(TRUE,
                    [BasePacket EXCEPT !.from_node = 180150000,
                                       !.has_rx_snr = TRUE, !.rx_snr = 55000000,
                                       !.has_rx_rssi = TRUE, !.rx_rssi = -90],
                    LongFast, <<>>) }

DeviceMetrics ==
    [battery_level |-> PyInt(88), voltage |-> PyFloat(41000000),
     channel_utilization |-> PyFloat(12500000), air_util_tx |-> PyFloat(5000000)]

\* Envelopes that differ in the port and its payload.
PortPayloads ==
    { Envelope(TRUE, WithPort(p[1], p[2]), LongFast, <<>>) :
        p \in { <<POSITION_APP, [garbage |-> TRUE]>>,
                <<TELEMETRY_APP, [telemetry |-> [time |-> 5, has_device_metrics |-> TRUE,
                                                 device_metrics |-> DeviceMetrics]]>>,
                <<TELEMETRY_APP, [telemetry |-> [time |-> 0, has_device_metrics |-> FALSE,
                                                 device_metrics |-> DeviceMetrics]]>>,
                <<TELEMETRY_APP, [garbage |-> TRUE]>>,
                <<TEXT_MESSAGE_APP, [text |-> <<"h", "i">>]>>,
                <<4, [garbage |-> TRUE]>> } }
    \cup { Envelope(TRUE, [BasePacket EXCEPT !.has_decoded = FALSE], LongFast, <<>>) }

Garbage == [garbage |-> TRUE]

PbPayloads == IdentityPayloads \cup FixPayloads \cup PortPayloads \cup {Garbage}

JsonObject(f) == [json |-> [object |-> f]]

NodeStr == PyStr(<<"!", "a", "b", "c", "d", "e", "f", "0", "1">>)

\* {"from":"!abcdef01","latitude":51.5,"longitude":-0.12}
BaseJson == [from |-> NodeStr, latitude |-> PyFloat(515000000),
             longitude |-> PyFloat(-1200000)]

JsonPayloads ==
    { JsonObject([BaseJson EXCEPT !.latitude = la]) :
        la \in {PyFloat(515000000), PyInt(0), PyNone, PyStr(<<"5", "1">>)} }
    \cup { JsonObject([BaseJson EXCEPT !.longitude = PyFloat(0)]),
           JsonObject([latitude |-> PyFloat(515000000), longitude |-> PyFloat(-1200000)]),
           JsonObject([from |-> NodeStr, longitude |-> PyFloat(-1200000)]),
           JsonObject([from |-> NodeStr, latitude |-> PyInt(51), longitude |-> PyInt(7),
                       altitude |-> PyInt(0), rssi |-> PyInt(-90),
                       snr |-> PyFloat(55000000), hop_limit |-> PyInt(3)]),
           [json |-> [array |-> <<>>]],
           Garbage }

JsonTopic == <<"msh", "2", "json", "LongFast", "!aabbccdd">>

EncryptedTopic == <<"msh", "2", "e", "LongFast", "!aabbccdd">>

ClearTopic == <<"msh", "2", "c", "LongFast", "!aabbccdd">>

Message(topic, payload) == [topic |-> topic, payload |-> payload]

Messages ==
    { Message(EncryptedTopic, p) : p \in PbPayloads }
    \cup { Message(JsonTopic, p) : p \in JsonPayloads }
    \cup { Message(ClearTopic, Envelope(TRUE, BasePacket, LongFast, <<>>)),
           Message(<<"msh", "2", "stat", "!aabbccdd">>,
                   Envelope(TRUE, BasePacket, LongFast, <<>>)),
           Message(<<"json", "LongFast">>, JsonObject(BaseJson)),
           Message(<<"msh", "e", "json", "LongFast">>, JsonObject(BaseJson)),
           Message(JsonTopic, Envelope(TRUE, BasePacket, LongFast, <<>>)),
           Message(EncryptedTopic, JsonObject(BaseJson)) }

----------------------------------------------------------------------------
(* init_db and mqtt_loop                                                   *)

max_retries == 5

\* The store-connection state the worker is in.
StoreState ==
    IF pc = "start" THEN "Disconnected"
    ELSE IF pc \in {"init_db", "retry_sleep"} THEN "Connecting"
    ELSE IF db_pool = "pool" THEN "Connected"
    ELSE "Degraded"

Init ==
    /\ attempt = 0
    /\ db_pool = "None"
    /\ gave_up = FALSE
    /\ pc = "start"
    /\ now = 0
    /\ raw_log = <<>>
    /\ decoded_log = <<>>
    /\ events_log = <<>>
    /\ dispatches = <<>>
    /\ tasks = <<>>
    /\ events = <<>>
    /\ devices = <<>>
    /\ formatted = NotCalled

\* asyncio.run(mqtt_loop()) enters init_db.
MqttLoopStart ==
    /\ pc = "start"
    /\ pc' = "init_db"
    /\ attempt' = 0
    /\ UNCHANGED <<gave_up, db_pool, now, raw_log, decoded_log, events_log, dispatches,
                   tasks, events, devices, formatted>>

\* Line 166 returns a pool: init_db returns.
CreatePoolOk ==
    /\ pc = "init_db"
    /\ db_pool' = "pool"
    /\ pc' = "connect"
    /\ attempt' = 0
    /\ UNCHANGED <<gave_up, now, raw_log, decoded_log, events_log, dispatches,
                   tasks, events, devices, formatted>>

\* CreatePoolFail with the test of line 170 as `attempt < max_retries`: a
\* sleep after the fifth failure and a sixth attempt.
CreatePoolFailSixAttempts ==
    /\ pc = "init_db"
    /\ IF attempt < max_retries
       THEN /\ pc' = "retry_sleep"
            /\ UNCHANGED <<gave_up, db_pool, attempt>>
       ELSE /\ db_pool' = "None"
            /\ gave_up' = TRUE
            /\ pc' = "connect"
            /\ attempt' = 0
    /\ UNCHANGED <<now, raw_log, decoded_log, events_log, dispatches,
                   tasks, events, devices, formatted>>

\* Line 166 raises: sleep before the next attempt, or give up after the last.
CreatePoolFail ==
    /\ pc = "init_db"
    /\ IF attempt < max_retries - 1
       THEN /\ pc' = "retry_sleep"
            /\ UNCHANGED <<gave_up, db_pool, attempt>>
       ELSE /\ db_pool' = "None"
            /\ gave_up' = TRUE
            /\ pc' = "connect"
            /\ attempt' = 0
    /\ UNCHANGED <<now, raw_log, decoded_log, events_log, dispatches,
                   tasks, events, devices, formatted>>

\* asyncio.sleep(retry_delay) returns: the next turn of the for loop.
RetrySleepDone ==
    /\ pc = "retry_sleep"
    /\ attempt' = attempt + 1
    /\ pc' = "init_db"
    /\ UNCHANGED <<gave_up, db_pool, now, raw_log, decoded_log, events_log, dispatches,
                   tasks, events, devices, formatted>>

\* Lines 305-312: client.connect and client.loop_start succeed.
ClientStart ==
    /\ pc = "connect"
    /\ pc' = "running"
    /\ UNCHANGED <<gave_up, attempt, db_pool, now, raw_log, decoded_log, events_log,
                   dispatches, tasks, events, devices, formatted>>

\* Line 308: client.connect raises (no broker): mqtt_loop ends with it.
ClientConnectFail ==
    /\ pc = "connect"
    /\ pc' = "aborted"
    /\ UNCHANGED <<gave_up, attempt, db_pool, now, raw_log, decoded_log, events_log,
                   dispatches, tasks, events, devices, formatted>>

\* A task of the event loop running save_event_to_db(event).
NewTask(event) == [event |-> event, pc |-> "acquire"]

\* The tasks asyncio.create_task adds to the event loop.
Spawn(created) == [i \in 1..Len(created) |-> NewTask(created[i])]

Last(seq) == seq[Len(seq)]

\* Whether on_message reaches the event-log append for msg.
ReachesEventLog(msg) ==
    LET decoded == Decode(msg)
    IN
    /\ Truthy(decoded)
    /\ HasPosition(decoded)
    /\ geo_to_h3(decoded["position"]["latitude"], decoded["position"]["longitude"],
                 H3_RESOLUTION).ok

\* The thread of client.loop_start() runs from line 312 until
\* client.loop_stop() has joined it.
CallbackThreadAlive == pc \in {"running", "loop_stop"}

\* paho delivers msg: one call of on_message on the callback thread.  The
\* messages arrive a second apart.
OnMessage(msg, io) ==
    /\ CallbackThreadAlive
    /\ io # "ok" => ReachesEventLog(msg)
    /\ dispatches' = Append(dispatches, on_message(msg, now, db_pool, io))
    /\ raw_log' = raw_log \o Last(dispatches').raw
    /\ decoded_log' = decoded_log \o Last(dispatches').decoded_lines
    /\ events_log' = events_log \o Last(dispatches').event_lines
    /\ tasks' = tasks \o Spawn(Last(dispatches').created)
    /\ now' = now + 1
    /\ UNCHANGED <<gave_up, attempt, db_pool, pc, events, devices, formatted>>

\* The bus delivers one of at most MaxMsgs messages.
Deliver(msg, io) == Len(dispatches) < MaxMsgs /\ OnMessage(msg, io)

Next ==
    \/ MqttLoopStart
    \/ CreatePoolOk
    \/ CreatePoolFail
    \/ RetrySleepDone
    \/ ClientStart
    \/ ClientConnectFail
    \/ \E msg \in Messages, io \in {"ok", "OSError"} : Deliver(msg, io)

Spec == Init /\ [][Next]_vars

----------------------------------------------------------------------------
(* save_event_to_db: the coroutine, one step per statement it awaits.  No  *)
(* transaction is opened, so each conn.execute commits on its own.         *)

max_size == 10

\* datetime.fromtimestamp(t)
fromtimestamp(t) == [datetime |-> t.int]

\* str(v)
str(v) == PyStr(<<"str", v>>)

\* Lines 184-202: the row INSERT INTO events adds.
EventRow(event) ==
    [timestamp |-> fromtimestamp(event["timestamp"]),
     node_id |-> event["node_id"],
     hex_id |-> event["hex_id"],
     latitude |-> Get(event, "latitude"),
     longitude |-> Get(event, "longitude"),
     altitude |-> Get(event, "altitude"),
     packet_type |-> str(Get(event, "packet_type")),
     rssi |-> Get(event, "rssi"),
     snr |-> Get(event, "snr"),
     hop_limit |-> Get(event, "hop_limit"),
     topic |-> Get(event, "topic"),
     raw_payload |-> Get(event, "raw_payload")]

\* UpsertDevice with first_seen among the columns DO UPDATE SET assigns.
UpsertDeviceOverwrite(devs, event) ==
    LET node_id == event["node_id"]
        seen == fromtimestamp(event["timestamp"])
        row == [node_id |-> node_id,
                last_seen |-> seen,
                last_hex_id |-> event["hex_id"],
                last_latitude |-> Get(event, "latitude"),
                last_longitude |-> Get(event, "longitude"),
                last_altitude |-> Get(event, "altitude"),
                first_seen |-> seen,
                packet_count |-> 1]
    IN
    IF node_id \in DOMAIN devs
    THEN [devs EXCEPT ![node_id] = [row EXCEPT !.packet_count = devs[node_id].packet_count + 1]]
    ELSE (node_id :> row) @@ devs

\* UpsertDevice with last_altitude = COALESCE(EXCLUDED.last_altitude,
\* devices.last_altitude): a null altitude keeps the one of the row.
UpsertDeviceKeepsAltitude(devs, event) ==
    LET node_id == event["node_id"]
        seen == fromtimestamp(event["timestamp"])
    IN
    IF node_id \in DOMAIN devs
    THEN [devs EXCEPT ![node_id] =
            [@ EXCEPT !.last_seen = seen,
                      !.last_hex_id = event["hex_id"],
                      !.last_latitude = Get(event, "latitude"),
                      !.last_longitude = Get(event, "longitude"),
                      !.last_altitude = IF IsNone(Get(event, "altitude"))
                                        THEN devs[node_id].last_altitude
                                        ELSE Get(event, "altitude"),
                      !.packet_count = @ + 1]]
    ELSE (node_id :> [node_id |-> node_id,
                      last_seen |-> seen,
                      last_hex_id |-> event["hex_id"],
                      last_latitude |-> Get(event, "latitude"),
                      last_longitude |-> Get(event, "longitude"),
                      last_altitude |-> Get(event, "altitude"),
                      first_seen |-> seen,
                      packet_count |-> 1]) @@ devs

\* Lines 205-224: INSERT INTO devices ... ON CONFLICT (node_id) DO UPDATE,
\* one atomic statement on the table devs.
UpsertDevice(devs, event) ==
    LET node_id == event["node_id"]
        seen == fromtimestamp(event["timestamp"])
    IN
    IF node_id \in DOMAIN devs
    THEN [devs EXCEPT ![node_id] =
            [@ EXCEPT !.last_seen = seen,
                      !.last_hex_id = event["hex_id"],
                      !.last_latitude = Get(event, "latitude"),
                      !.last_longitude = Get(event, "longitude"),
                      !.last_altitude = Get(event, "altitude"),
                      !.packet_count = @ + 1]]
    ELSE (node_id :> [node_id |-> node_id,
                      last_seen |-> seen,
                      last_hex_id |-> event["hex_id"],
                      last_latitude |-> Get(event, "latitude"),
                      last_longitude |-> Get(event, "longitude"),
                      last_altitude |-> Get(event, "altitude"),
                      first_seen |-> seen,
                      packet_count |-> 1]) @@ devs

\* The event loop of asyncio.run takes turns: the main task is at an await
\* (not inside the synchronous client.loop_stop()) and the process lives.
LoopTurns == pc \notin {"loop_stop", "returned", "cancelled", "aborted"}

\* The tasks that hold a connection of the pool.
Holding == {i \in 1..Len(tasks) : tasks[i].pc \in {"insert_event", "upsert_device"}}

\* Line 182: db_pool.acquire() hands out a connection.
Acquire(i) ==
    /\ LoopTurns
    /\ tasks[i].pc = "acquire"
    /\ pc # "closing"
    /\ Cardinality(Holding) < max_size
    /\ tasks' = [tasks EXCEPT ![i].pc = "insert_event"]
    /\ UNCHANGED <<gave_up, attempt, db_pool, pc, now, raw_log, decoded_log, events_log,
                   dispatches, events, devices, formatted>>

\* Line 182 raises (the store is gone, or the pool is closing): line 226
\* catches it.
AcquireFail(i) ==
    /\ LoopTurns
    /\ tasks[i].pc = "acquire"
    /\ tasks' = [tasks EXCEPT ![i].pc = "failed"]
    /\ UNCHANGED <<gave_up, attempt, db_pool, pc, now, raw_log, decoded_log, events_log,
                   dispatches, events, devices, formatted>>

\* Lines 184-202: the event row is inserted.
InsertEvent(i) ==
    /\ LoopTurns
    /\ tasks[i].pc = "insert_event"
    /\ events' = Append(events, EventRow(tasks[i].event))
    /\ tasks' = [tasks EXCEPT ![i].pc = "upsert_device"]
    /\ UNCHANGED <<gave_up, attempt, db_pool, pc, now, raw_log, decoded_log, events_log,
                   dispatches, devices, formatted>>

\* Lines 184-202 raise: the connection is released, line 226 catches it.
InsertEventFail(i) ==
    /\ LoopTurns
    /\ tasks[i].pc = "insert_event"
    /\ tasks' = [tasks EXCEPT ![i].pc = "failed"]
    /\ UNCHANGED <<gave_up, attempt, db_pool, pc, now, raw_log, decoded_log, events_log,
                   dispatches, events, devices, formatted>>

\* Lines 205-224: the device row is inserted or updated.
UpsertDeviceStep(i) ==
    /\ LoopTurns
    /\ tasks[i].pc = "upsert_device"
    /\ devices' = UpsertDevice(devices, tasks[i].event)
    /\ tasks' = [tasks EXCEPT ![i].pc = "done"]
    /\ UNCHANGED <<gave_up, attempt, db_pool, pc, now, raw_log, decoded_log, events_log,
                   dispatches, events, formatted>>

\* Lines 205-224 raise: line 226 catches it; the event row stays.
UpsertDeviceFail(i) ==
    /\ LoopTurns
    /\ tasks[i].pc = "upsert_device"
    /\ tasks' = [tasks EXCEPT ![i].pc = "failed"]
    /\ UNCHANGED <<gave_up, attempt, db_pool, pc, now, raw_log, decoded_log, events_log,
                   dispatches, events, devices, formatted>>

\* The events save_event_to_db is run on: those on_message builds for a
\* node at two altitudes and for a second node, at two clock values.
SaveEvents ==
    { on_message(Message(EncryptedTopic, p), t, "pool", "ok").event :
        p \in { Envelope(TRUE, BasePacket, LongFast, <<>>),
                Envelope(TRUE,
                         [WithPort(POSITION_APP, FixBytes(407128000, -740060000, 0))
                             EXCEPT !.hop_limit = 0, !.hop_start = 0],
                         LongFast, <<>>) },
        t \in {0, 1} }
    \cup { on_message(Message(JsonTopic, JsonObject(BaseJson)), 1, "pool", "ok").event }

\* Line 291 on a thread with a running loop: the coroutine becomes a task.
CreateTask(event) ==
    /\ pc = "running"
    /\ db_pool = "pool"
    /\ Len(tasks) < MaxTasks
    /\ tasks' = tasks \o Spawn(<<event>>)
    /\ UNCHANGED <<gave_up, attempt, db_pool, pc, now, raw_log, decoded_log, events_log,
                   dispatches, events, devices, formatted>>

\* The store connected, the event loop running, nothing written yet.
InitSave ==
    /\ attempt = 0
    /\ db_pool = "pool"
    /\ gave_up = FALSE
    /\ pc = "running"
    /\ now = 0
    /\ raw_log = <<>>
    /\ decoded_log = <<>>
    /\ events_log = <<>>
    /\ dispatches = <<>>
    /\ tasks = <<>>
    /\ events = <<>>
    /\ devices = <<>>
    /\ formatted = NotCalled

NextSave ==
    \/ \E event \in SaveEvents : CreateTask(event)
    \/ \E i \in 1..Len(tasks) : Acquire(i)
    \/ \E i \in 1..Len(tasks) : AcquireFail(i)
    \/ \E i \in 1..Len(tasks) : InsertEvent(i)
    \/ \E i \in 1..Len(tasks) : InsertEventFail(i)
    \/ \E i \in 1..Len(tasks) : UpsertDeviceStep(i)
    \/ \E i \in 1..Len(tasks) : UpsertDeviceFail(i)

SpecSave == InitSave /\ [][NextSave]_vars

----------------------------------------------------------------------------
(* Message sequences: the worker past start-up, connected or degraded, and *)
(* a longer run of fewer messages, failing and succeeding ones mixed.      *)

SeqMessages ==
    { Message(EncryptedTopic, Garbage),
      Message(EncryptedTopic, Envelope(TRUE, [BasePacket EXCEPT !.from_node = 0],
                                       <<>>, <<>>)),
      Message(EncryptedTopic, Envelope(TRUE, BasePacket, LongFast, <<>>)),
      Message(EncryptedTopic,
              Envelope(TRUE, WithPort(POSITION_APP, [garbage |-> TRUE]), LongFast, <<>>)),
      Message(JsonTopic, Garbage),
      Message(JsonTopic, [json |-> [array |-> <<>>]]),
      Message(JsonTopic, JsonObject(BaseJson)),
      Message(<<"msh", "2", "stat", "!aabbccdd">>, Garbage) }

InitSeq ==
    /\ attempt = 0
    /\ db_pool \in {"None", "pool"}
    /\ gave_up = (db_pool = "None")
    /\ pc = "running"
    /\ now = 0
    /\ raw_log = <<>>
    /\ decoded_log = <<>>
    /\ events_log = <<>>
    /\ dispatches = <<>>
    /\ tasks = <<>>
    /\ events = <<>>
    /\ devices = <<>>
    /\ formatted = NotCalled

\* The bus delivers one of at most MaxSeq messages.
DeliverSeq(msg) == Len(dispatches) < MaxSeq /\ OnMessage(msg, "ok")

NextSeq == \E msg \in SeqMessages : DeliverSeq(msg)

SpecSeq == InitSeq /\ [][NextSeq]_vars

----------------------------------------------------------------------------
(* Shutdown: SIGINT while mqtt_loop is in the loop of lines 315-317.       *)
(* Where the interrupt lands is not the program's choice.  When the main   *)
(* thread is executing the coroutine's own bytecode, KeyboardInterrupt is  *)
(* raised inside the try block and line 318 catches it.  Otherwise (the    *)
(* main thread is in the event loop's select, or asyncio.run has its own   *)
(* SIGINT handler and cancels the main task) the coroutine gets            *)
(* CancelledError at line 317, or nothing at all, and line 318 catches     *)
(* neither.                                                                *)

MaxStopMsgs == 1

\* asyncio.run cancels the tasks still pending when the main task ends.
CancelPending(ts) ==
    [i \in 1..Len(ts) |->
        IF ts[i].pc \in {"done", "failed"} THEN ts[i]
        ELSE [ts[i] EXCEPT !.pc = "cancelled"]]

\* KeyboardInterrupt is raised inside the try block: line 318 catches it.
SignalInCoroutine ==
    /\ pc = "running"
    /\ pc' = "loop_stop"
    /\ UNCHANGED <<gave_up, attempt, db_pool, now, raw_log, decoded_log, events_log,
                   dispatches, tasks, events, devices, formatted>>

\* The interrupt ends the main task without entering line 318: asyncio.run
\* cancels what is pending and the process exits, the callback thread (a
\* daemon thread) with it.
SignalCancelsMain ==
    /\ pc = "running"
    /\ pc' = "cancelled"
    /\ tasks' = CancelPending(tasks)
    /\ UNCHANGED <<gave_up, attempt, db_pool, now, raw_log, decoded_log, events_log,
                   dispatches, events, devices, formatted>>

\* Lines 320-322: client.loop_stop() joins the callback thread; then, with
\* a pool, db_pool.close() marks the pool as closing and waits.
LoopStop ==
    /\ pc = "loop_stop"
    /\ pc' = IF db_pool = "pool" THEN "closing" ELSE "returned"
    /\ UNCHANGED <<gave_up, attempt, db_pool, now, raw_log, decoded_log, events_log,
                   dispatches, tasks, events, devices, formatted>>

\* Line 322 returns: asyncpg's Pool.close() waits until every connection
\* has been released, then closes them.  mqtt_loop returns and asyncio.run
\* cancels the tasks that have not run yet.
PoolCloseDone ==
    /\ pc = "closing"
    /\ Holding = {}
    /\ pc' = "returned"
    /\ tasks' = CancelPending(tasks)
    /\ UNCHANGED <<gave_up, attempt, db_pool, now, raw_log, decoded_log, events_log,
                   dispatches, events, devices, formatted>>

StopMessages ==
    { Message(EncryptedTopic, Envelope(TRUE, BasePacket, LongFast, <<>>)),
      Message(JsonTopic, Garbage) }

StopEvents ==
    { on_message(Message(EncryptedTopic, Envelope(TRUE, BasePacket, LongFast, <<>>)),
                 0, "pool", "ok").event,
      on_message(Message(JsonTopic, JsonObject(BaseJson)), 1, "pool", "ok").event }

\* The bus delivers one of at most MaxStopMsgs messages.
DeliverStop(msg) == Len(dispatches) < MaxStopMsgs /\ OnMessage(msg, "ok")

NextStop ==
    \/ \E msg \in StopMessages : DeliverStop(msg)
    \/ \E event \in StopEvents : CreateTask(event)
    \/ \E i \in 1..Len(tasks) : Acquire(i)
    \/ \E i \in 1..Len(tasks) : AcquireFail(i)
    \/ \E i \in 1..Len(tasks) : InsertEvent(i)
    \/ \E i \in 1..Len(tasks) : InsertEventFail(i)
    \/ \E i \in 1..Len(tasks) : UpsertDeviceStep(i)
    \/ \E i \in 1..Len(tasks) : UpsertDeviceFail(i)
    \/ SignalInCoroutine
    \/ SignalCancelsMain
    \/ LoopStop
    \/ PoolCloseDone

SpecStop == InitSeq /\ [][NextStop]_vars

----------------------------------------------------------------------------
(* Start-up under fairness.  asyncio.run runs mqtt_loop; create_pool is    *)
(* called with timeout=10, so an attempt ends, one way or the other; and   *)
(* asyncio.sleep(retry_delay) returns.                                     *)

MaxInitMsgs == 1

\* The bus delivers one of at most MaxInitMsgs messages.
DeliverInit(msg, io) == Len(dispatches) < MaxInitMsgs /\ OnMessage(msg, io)

NextInitDb ==
    \/ MqttLoopStart
    \/ CreatePoolOk
    \/ CreatePoolFail
    \/ RetrySleepDone
    \/ ClientStart
    \/ ClientConnectFail
    \/ \E msg \in Messages, io \in {"ok", "OSError"} : DeliverInit(msg, io)

SpecInitDb ==
    /\ Init
    /\ [][NextInitDb]_vars
    /\ WF_vars(MqttLoopStart)
    /\ WF_vars(CreatePoolOk \/ CreatePoolFail)
    /\ WF_vars(RetrySleepDone)

----------------------------------------------------------------------------
(* format_node_id on its own, called on node integers: the small ones, and *)
(* some of more hexadecimal digits.                                        *)

MaxNode == 127

NodeInts == (0..MaxNode) \cup {4096, 11259375, 180150000, 305419896, 2147483647}

\* One call format_node_id(n).
Format(n) ==
    /\ formatted' = [node_id_int |-> n, result |-> format_node_id(n)]
    /\ UNCHANGED <<attempt, db_pool, gave_up, pc, now, raw_log, decoded_log, events_log,
                   dispatches, tasks, events, devices>>

NextFormat == \E n \in NodeInts : Format(n)

SpecFormat == Init /\ [][NextFormat]_vars

----------------------------------------------------------------------------
(* Vocabulary of the properties.                                           *)

Dispatched == 1..Len(dispatches)

\* The dispatch put an event on the event log or handed one to the store.
Emitted(d) == d.event_lines # <<>> \/ d.created # <<>>

\* The topic selects the binary decoder and the payload is an envelope.
BinaryEnvelope(msg) ==
    /\ ~HasSegment(msg.topic, "json")
    /\ HasSegment(msg.topic, "e") \/ HasSegment(msg.topic, "c")
    /\ "pb" \in DOMAIN msg.payload

\* The number of populated fields of an envelope.
Populated(env) ==
    Cardinality({f \in {"packet", "channel_id", "gateway_id"} :
                    \/ f = "packet" /\ env.has_packet
                    \/ f = "channel_id" /\ env.channel_id # <<>>
                    \/ f = "gateway_id" /\ env.gateway_id # <<>>})

\* The coordinates a message carries on the path its topic selects, None
\* for one it does not carry.
Carried(msg) ==
    IF HasSegment(msg.topic, "json")
    THEN IF "json" \in DOMAIN msg.payload /\ "object" \in DOMAIN msg.payload.json
         THEN <<Get(msg.payload.json.object, "latitude"),
                Get(msg.payload.json.object, "longitude")>>
         ELSE <<PyNone, PyNone>>
    ELSE IF "pb" \in DOMAIN msg.payload
            /\ "position" \in DOMAIN msg.payload.pb.packet.decoded.payload
    THEN <<PyInt(msg.payload.pb.packet.decoded.payload.position.latitude_i),
           PyInt(msg.payload.pb.packet.decoded.payload.position.longitude_i)>>
    ELSE <<PyNone, PyNone>>

ZeroOrMissing(v) ==
    \/ IsNone(v)
    \/ IsInt(v) /\ v.int = 0
    \/ IsFloat(v) /\ v.float = 0

\* A decoded packet with a position whose coordinates are non-zero numbers.
UsableFix(decoded) ==
    /\ "position" \in DOMAIN decoded
    /\ IsNumber(decoded["position"]["latitude"])
    /\ IsNumber(decoded["position"]["longitude"])
    /\ ~ZeroOrMissing(decoded["position"]["latitude"])
    /\ ~ZeroOrMissing(decoded["position"]["longitude"])

\* The raw-log line of a dispatch.
RawLineOf(d) == <<strftime(d.t), d.msg.topic, hex(d.msg.payload)>>

\* An event without the clock readings in it.
Timeless(event) ==
    IF IsNone(event) THEN event
    ELSE [event EXCEPT !.timestamp = PyNone, !.timestamp_iso = PyNone]

\* What a dispatch did, the clock readings apart.
Outcome(d) ==
    [decoded |-> d.decoded, decoded_lines |-> Len(d.decoded_lines),
     event |-> Timeless(d.event), event_lines |-> Len(d.event_lines),
     created |-> Len(d.created), caught |-> d.caught, raw |-> Len(d.raw)]

\* No save_event_to_db task is under way.
NoWriteInFlight == \A i \in 1..Len(tasks) : tasks[i].pc \in {"done", "failed"}

----------------------------------------------------------------------------
(* Properties.                                                             *)

\* C1: once the relational writes have finished, the devices row of every
\* node has a packet_count equal to the number of events on_message emitted
\* for that node while the store was connected.
C1_PacketCountIsEventCount ==
    NoWriteInFlight =>
        \A k \in Dispatched :
            LET d == dispatches[k]
            IN
            (d.pool = "pool" /\ Emitted(d)) =>
                /\ d.event["node_id"] \in DOMAIN devices
                /\ devices[d.event["node_id"]].packet_count =
                     Cardinality({j \in Dispatched :
                                    /\ dispatches[j].pool = "pool"
                                    /\ Emitted(dispatches[j])
                                    /\ dispatches[j].event["node_id"] = d.event["node_id"]})

\* C2: first_seen of a devices row is the timestamp of the write that
\* created the row, and no later write changes it.
C2_FirstSeenWriteOnce ==
    [][/\ \A n \in DOMAIN devices :
            /\ n \in DOMAIN devices'
            /\ devices'[n].first_seen = devices[n].first_seen
       /\ \A n \in DOMAIN devices' \ DOMAIN devices :
            \E i \in 1..Len(tasks) :
                /\ tasks[i].pc = "upsert_device"
                /\ tasks'[i].pc = "done"
                /\ tasks[i].event["node_id"] = n
                /\ devices'[n].first_seen = fromtimestamp(tasks[i].event["timestamp"])]_vars

\* C2 witness: a row written twice, the second time at a later second.
C2_Witness ==
    \E n \in DOMAIN devices :
        /\ devices[n].packet_count >= 2
        /\ devices[n].last_seen # devices[n].first_seen

\* C3: a dispatch builds or emits an event only for a message that carries
\* both coordinates, non-null and non-zero, and the event has them.
C3_NoEventWithoutFix ==
    \A k \in Dispatched :
        LET d == dispatches[k]
        IN
        (Emitted(d) \/ ~IsNone(d.event)) =>
            /\ ~ZeroOrMissing(Carried(d.msg)[1])
            /\ ~ZeroOrMissing(Carried(d.msg)[2])
            /\ ~ZeroOrMissing(d.event["latitude"])
            /\ ~ZeroOrMissing(d.event["longitude"])

\* C3 witness: a binary message with a zero latitude_i and a textual one
\* with a zero coordinate have both been dispatched, each otherwise decoded.
C3_Witness ==
    \E i, j \in Dispatched :
        /\ BinaryEnvelope(dispatches[i].msg)
        /\ "port_num" \in DOMAIN dispatches[i].decoded
        /\ Carried(dispatches[i].msg)[1] = PyInt(0)
        /\ HasSegment(dispatches[j].msg.topic, "json")
        /\ "position" \in DOMAIN dispatches[j].decoded
        /\ ZeroOrMissing(Carried(dispatches[j].msg)[2])

C5_FailedDecodeNotLogged ==
    \A k \in Dispatched :
        "error" \in DOMAIN dispatches[k].decoded => dispatches[k].decoded_lines = <<>>

\* C6: a binary envelope with from = 0 and fewer than 3 populated fields
\* decodes to the missing-node-id error, emits no event, and has exactly
\* one line in the raw log.
C6_MissingNodeId ==
    /\ Len(raw_log) = Len(dispatches)
    /\ \A k \in Dispatched :
        LET d == dispatches[k]
        IN
        (/\ BinaryEnvelope(d.msg)
         /\ d.msg.payload.pb.packet.from_node = 0
         /\ Populated(d.msg.payload.pb) < 3) =>
            /\ d.decoded = [error |-> PyStr(<<"from_node">>)]
            /\ IsNone(d.event)
            /\ ~Emitted(d)
            /\ d.raw = <<RawLineOf(d)>>
            /\ raw_log[k] = RawLineOf(d)

\* C6 witness: such an envelope, with two populated fields, was dispatched.
C6_Witness ==
    \E k \in Dispatched :
        /\ BinaryEnvelope(dispatches[k].msg)
        /\ dispatches[k].msg.payload.pb.packet.from_node = 0
        /\ Populated(dispatches[k].msg.payload.pb) = 2

\* C7: when init_db gives up it leaves db_pool None and goes on to the bus
\* connection; from then on no relational write is dispatched or attempted,
\* and a message decoded with a usable position has its raw, decoded and
\* event line (the event-log append not failing).
C7_DegradedInv ==
    gave_up =>
        /\ db_pool = "None"
        /\ tasks = <<>>
        /\ Len(raw_log) = Len(dispatches)
        /\ \A k \in Dispatched :
            LET d == dispatches[k]
            IN
            /\ d.created = <<>>
            /\ d.caught # "RuntimeError"
            /\ raw_log[k] = RawLineOf(d)
            /\ (UsableFix(d.decoded) /\ d.io = "ok") =>
                /\ Len(d.decoded_lines) = 1
                /\ Len(d.event_lines) = 1
                /\ d.caught = "none"

\* C7, with the step that gives up: it is the fifth attempt failing, and it
\* leaves init_db for the bus connection with db_pool None.
C7_DegradedLogsOnly ==
    /\ []C7_DegradedInv
    /\ [][(~gave_up /\ gave_up') =>
            (/\ attempt = max_retries - 1
             /\ pc' = "connect"
             /\ db_pool' = "None")]_vars

\* C7 witness: degraded, and an event is on the event log.
C7_Witness ==
    /\ gave_up
    /\ \E k \in Dispatched :
        /\ UsableFix(dispatches[k].decoded)
        /\ Len(dispatches[k].event_lines) = 1
    /\ Len(events_log) >= 1

\* C8: an event whose event-log append fails still has its relational
\* write dispatched when the store is connected, and an event whose
\* relational write is not dispatched still has its event-log line.
C8_WritePathsIndependent ==
    \A k \in Dispatched :
        LET d == dispatches[k]
        IN
        ~IsNone(d.event) =>
            /\ (d.io # "ok" /\ d.pool = "pool") => Len(d.created) = 1
            /\ (d.io = "ok" /\ d.created = <<>>) => Len(d.event_lines) = 1

C10_WriteDispatchedOnce ==
    \A k \in Dispatched :
        LET d == dispatches[k]
        IN
        (d.pool = "pool" /\ d.event_lines # <<>>) =>
            /\ Len(d.created) = 1
            /\ d.caught = "none"

\* C11: init_db makes at most max_retries attempts, numbered 0..4; a
\* successful attempt ends it with db_pool set; a failed attempt is followed
\* by the sleep when it is not the last and by giving up, with no sleep,
\* when it is; init_db ends, in exactly one of Connected and Degraded, and
\* the store-connection state only moves Disconnected, Connecting, then
\* Connected or Degraded.
C11_InitDbInv ==
    /\ attempt \in 0..(max_retries - 1)
    /\ pc \in {"start", "init_db", "retry_sleep"} => (db_pool = "None" /\ ~gave_up)
    /\ pc \notin {"start", "init_db", "retry_sleep"} => ((db_pool = "pool") # gave_up)

C11_InitDbStep ==
    /\ pc = "init_db" =>
        \/ pc' = "connect" /\ db_pool' = "pool" /\ ~gave_up'
        \/ /\ attempt < max_retries - 1
           /\ pc' = "retry_sleep" /\ attempt' = attempt
           /\ db_pool' = "None" /\ ~gave_up'
        \/ /\ attempt = max_retries - 1
           /\ pc' = "connect" /\ db_pool' = "None" /\ gave_up'
    /\ pc = "retry_sleep" => (pc' = "init_db" /\ attempt' = attempt + 1)
    /\ <<StoreState, StoreState'>> \in
            { <<"Disconnected", "Disconnected">>, <<"Disconnected", "Connecting">>,
              <<"Connecting", "Connecting">>, <<"Connecting", "Connected">>,
              <<"Connecting", "Degraded">>, <<"Connected", "Connected">>,
              <<"Degraded", "Degraded">> }

C11_InitDbBoundedAndEnds ==
    /\ []C11_InitDbInv
    /\ [][C11_InitDbStep]_vars
    /\ <>(StoreState \in {"Connected", "Degraded"})

\* C11 witness: the fifth attempt has failed and init_db has returned.
C11_Witness == pc = "connect" /\ gave_up /\ StoreState = "Degraded"

\* C12: recovery from Degraded is opportunistic: a message received in
\* Degraded that emits an event has a store operation attempted for it, by
\* whose success the store-connection state returns to Connected.
C12_DegradedTriesStore ==
    \A k \in Dispatched :
        LET d == dispatches[k]
        IN
        (d.pool = "None" /\ d.event_lines # <<>>) =>
            (d.created # <<>> \/ d.caught = "RuntimeError")

\* loop_stop() has been called: the callback thread is joined.
SubscriptionStopped == pc \in {"closing", "returned"}

\* db_pool.close() has returned.
PoolClosed == pc = "returned" /\ db_pool = "pool"

\* C13: when the process has ended on a shutdown signal, the shutdown
\* sequence was executed: the subscription was stopped and the pool, if
\* there is one, was closed.
C13_ShutdownSequenceRuns ==
    pc \in {"returned", "cancelled"} =>
        /\ SubscriptionStopped
        /\ db_pool = "pool" => PoolClosed

\* C14: the topic alone selects the decoder: the textual one when it has
\* "/json/", else the binary one when it has "/e/" or "/c/", else none, and
\* then the message has its raw line, no decoded line and no event.
C14_TopicSelectsDecoder ==
    \A k \in Dispatched :
        LET d == dispatches[k]
        IN
        IF HasSegment(d.msg.topic, "json")
        THEN d.decoded = decode_json_packet(d.msg.payload)
        ELSE IF HasSegment(d.msg.topic, "e") \/ HasSegment(d.msg.topic, "c")
        THEN d.decoded = decode_protobuf_packet(d.msg.payload)
        ELSE /\ IsNone(d.decoded)
             /\ d.raw = <<RawLineOf(d)>>
             /\ d.decoded_lines = <<>>
             /\ IsNone(d.event)
             /\ ~Emitted(d)

\* C14 witness: a topic with both "/e/" and "/json/" was decoded as text,
\* and a topic with neither was dispatched.
C14_Witness ==
    \E i, j \in Dispatched :
        /\ HasSegment(dispatches[i].msg.topic, "json")
        /\ HasSegment(dispatches[i].msg.topic, "e")
        /\ "sender" \in DOMAIN dispatches[i].decoded
        /\ ~HasSegment(dispatches[j].msg.topic, "json")
        /\ ~HasSegment(dispatches[j].msg.topic, "e")
        /\ ~HasSegment(dispatches[j].msg.topic, "c")
        /\ Len(raw_log) = 2

\* The value of a lowercase hexadecimal digit, -1 for any other character.
DigitValue(c) ==
    IF \E v \in 0..15 : HexDigit(v) = c THEN CHOOSE v \in 0..15 : HexDigit(v) = c ELSE -1

\* s is "!" and 8 lowercase hexadecimal digits that spell n.  The number is
\* compared in two halves of four digits.
SpellsNode(s, n) ==
    /\ Len(s) = 9
    /\ s[1] = "!"
    /\ \A i \in 2..9 : DigitValue(s[i]) >= 0
    /\ DigitValue(s[2]) * 4096 + DigitValue(s[3]) * 256 + DigitValue(s[4]) * 16
         + DigitValue(s[5]) = n \div 65536
    /\ DigitValue(s[6]) * 4096 + DigitValue(s[7]) * 256 + DigitValue(s[8]) * 16
         + DigitValue(s[9]) = n % 65536

\* C15: format_node_id(n), for every node integer n, 0 included, is "!" and
\* the 8-digit zero-padded lowercase hexadecimal representation of n.
C15_NineCharacters ==
    formatted # NotCalled =>
        /\ IsStr(formatted.result)
        /\ SpellsNode(formatted.result.str, formatted.node_id_int)

\* The keys every successful result of the binary decoder has.
CommonKeys ==
    {"id", "from", "to", "channel", "rx_time", "rx_snr", "rx_rssi", "hop_limit",
     "hop_start", "want_ack"}

\* The payload fields of a result of the binary decoder.
PayloadKeys(decoded) == DOMAIN decoded \ (CommonKeys \cup {"port_num"})

\* C16: a binary envelope with a resolved node id and a decoded sub-message
\* decodes without error, with the common fields and the port number, and
\* with the payload field of its port: position on the Position port when
\* the payload parses to a fix with both coordinates non-zero, telemetry on
\* the Telemetry port when the payload parses (device_metrics when it has
\* them), text on the Text port, and none on any other port or when the
\* payload does not parse.
C16_PortDispatchTotal ==
    \A k \in Dispatched :
        LET d == dispatches[k]
        IN
        (/\ BinaryEnvelope(d.msg)
         /\ Truthy(ResolveNodeId(d.msg.payload.pb))
         /\ d.msg.payload.pb.packet.has_decoded) =>
            LET sub == d.msg.payload.pb.packet.decoded
            IN
            /\ "error" \notin DOMAIN d.decoded
            /\ CommonKeys \cup {"port_num"} \subseteq DOMAIN d.decoded
            /\ d.decoded["port_num"] = PyInt(sub.portnum)
            /\ Len(d.decoded_lines) = 1
            /\ IF sub.portnum = POSITION_APP
               THEN PayloadKeys(d.decoded) =
                        IF /\ "position" \in DOMAIN sub.payload
                           /\ sub.payload.position.latitude_i # 0
                           /\ sub.payload.position.longitude_i # 0
                        THEN {"position"} ELSE {}
               ELSE IF sub.portnum = TELEMETRY_APP
               THEN IF "telemetry" \in DOMAIN sub.payload
                    THEN /\ PayloadKeys(d.decoded) = {"telemetry"}
                         /\ "device_metrics" \in DOMAIN d.decoded["telemetry"]
                                <=> sub.payload.telemetry.has_device_metrics
                    ELSE PayloadKeys(d.decoded) = {}
               ELSE IF sub.portnum = TEXT_MESSAGE_APP
               THEN PayloadKeys(d.decoded) = {"text"}
               ELSE PayloadKeys(d.decoded) = {}

\* C16 witness: a Position payload that does not parse and a packet on a
\* port of no decoder have both been decoded.
C16_Witness ==
    \E i, j \in Dispatched :
        /\ BinaryEnvelope(dispatches[i].msg)
        /\ dispatches[i].msg.payload.pb.packet.decoded.portnum = POSITION_APP
        /\ "garbage" \in DOMAIN dispatches[i].msg.payload.pb.packet.decoded.payload
        /\ Get(dispatches[i].decoded, "port_num") = PyInt(POSITION_APP)
        /\ BinaryEnvelope(dispatches[j].msg)
        /\ Get(dispatches[j].decoded, "port_num") = PyInt(4)

\* The last-seen and last-position columns of row are those of event.
RowIsOf(row, event) ==
    /\ row.last_seen = fromtimestamp(event["timestamp"])
    /\ row.last_hex_id = event["hex_id"]
    /\ row.last_latitude = Get(event, "latitude")
    /\ row.last_longitude = Get(event, "longitude")
    /\ row.last_altitude = Get(event, "altitude")

\* The tasks that have committed their upsert for node n.
Upserted(n) == {i \in 1..Len(tasks) : tasks[i].pc = "done" /\ tasks[i].event["node_id"] = n}

\* C17: with the writes of several events of one node in flight at once,
\* the devices row always has the last-seen and last-position columns of
\* one single event, packet_count is the number of upserts committed, and
\* each upsert that commits leaves the columns of its own event and adds
\* one to packet_count.
C17_RowInv ==
    \A n \in DOMAIN devices :
        /\ devices[n].packet_count = Cardinality(Upserted(n))
        /\ \E i \in Upserted(n) : RowIsOf(devices[n], tasks[i].event)

C17_UpsertStep ==
    \A i \in 1..Len(tasks) :
        (tasks[i].pc = "upsert_device" /\ tasks'[i].pc = "done") =>
            LET n == tasks[i].event["node_id"]
            IN
            /\ n \in DOMAIN devices'
            /\ RowIsOf(devices'[n], tasks[i].event)
            /\ devices'[n].packet_count =
                  IF n \in DOMAIN devices THEN devices[n].packet_count + 1 ELSE 1

C17_LastUpsertWins == []C17_RowInv /\ [][C17_UpsertStep]_vars

\* C17 witness: two writes of one node, of events that differ, have both
\* finished, the one started first having committed its upsert second.
C17_Witness ==
    /\ Len(tasks) >= 2
    /\ tasks[1].pc = "done"
    /\ tasks[2].pc = "done"
    /\ tasks[1].event["node_id"] = tasks[2].event["node_id"]
    /\ devices[tasks[1].event["node_id"]].packet_count = 2
    /\ RowIsOf(devices[tasks[1].event["node_id"]], tasks[1].event)
    /\ ~RowIsOf(devices[tasks[1].event["node_id"]], tasks[2].event)
    /\ tasks[1].event["altitude"] # tasks[2].event["altitude"]
    /\ tasks[1].event["timestamp"] # tasks[2].event["timestamp"]

\* C18: in the binary decoder a zero hop_limit, hop_start or altitude stays
\* 0 in the decoded packet, and in the event built from it.
C18_ZeroPreserved ==
    \A k \in Dispatched :
        LET d == dispatches[k]
        IN
        (BinaryEnvelope(d.msg) /\ "error" \notin DOMAIN d.decoded) =>
            LET packet == d.msg.payload.pb.packet
            IN
            /\ packet.hop_limit = 0 =>
                /\ d.decoded["hop_limit"] = PyInt(0)
                /\ ~IsNone(d.event) => d.event["hop_limit"] = PyInt(0)
            /\ packet.hop_start = 0 => d.decoded["hop_start"] = PyInt(0)
            /\ ("position" \in DOMAIN d.decoded
                /\ packet.decoded.payload.position.altitude = 0) =>
                /\ d.decoded["position"]["altitude"] = PyInt(0)
                /\ ~IsNone(d.event) => d.event["altitude"] = PyInt(0)

\* C19: every message received has exactly one raw-log line, whatever its
\* topic and however its decoding ends, and the k-th line of the raw log is
\* the line of the k-th message received.
C19_RawLogInArrivalOrder ==
    /\ Len(raw_log) = Len(dispatches)
    /\ \A k \in Dispatched :
        /\ Len(dispatches[k].raw) = 1
        /\ raw_log[k] = <<strftime(dispatches[k].t), dispatches[k].msg.topic,
                          hex(dispatches[k].msg.payload)>>
        /\ \A j \in Dispatched : j < k => dispatches[j].t < dispatches[k].t

\* C19 witness: three messages in a row: one of a topic with no decoder,
\* one that failed to decode and one that emitted an event.
C19_Witness ==
    /\ Len(raw_log) = 3
    /\ IsNone(dispatches[1].decoded)
    /\ "error" \in DOMAIN dispatches[2].decoded
    /\ Emitted(dispatches[3])

\* The dispatch reached asyncio.create_task of line 291.
DispatchAttempted(d) == d.created # <<>> \/ d.caught = "RuntimeError"

\* C20: a message emits at most one event; the relational write of an event
\* is dispatched only after its event-log line has been appended; and every
\* write scheduled and every row of the events table is of an event that
\* has its line on the event log.
C20_StoreNeverAheadOfLog ==
    /\ \A k \in Dispatched :
        LET d == dispatches[k]
        IN
        /\ Len(d.event_lines) <= 1
        /\ Len(d.created) <= 1
        /\ DispatchAttempted(d) =>
            /\ d.event_lines = <<json_dumps(d.event)>>
            /\ \E j \in 1..Len(events_log) : events_log[j] = json_dumps(d.event)
        /\ d.io # "ok" => ~DispatchAttempted(d)
    /\ Len(events_log) <= Len(dispatches)
    /\ \A i \in 1..Len(tasks) :
        \E j \in 1..Len(events_log) : events_log[j] = json_dumps(tasks[i].event)
    /\ \A r \in 1..Len(events) :
        \E k \in Dispatched :
            /\ Len(dispatches[k].event_lines) = 1
            /\ events[r] = EventRow(dispatches[k].event)

\* C20 witness: one event whose write was dispatched, its line on the event
\* log, and one whose event-log append failed.
C20_Witness ==
    \E i, j \in Dispatched :
        /\ DispatchAttempted(dispatches[i])
        /\ Len(events_log) = 1
        /\ events_log[1] = json_dumps(dispatches[i].event)
        /\ dispatches[j].io = "OSError"
        /\ dispatches[j].pool = "pool"
        /\ ~IsNone(dispatches[j].event)

\* The rows of the events table of node n.
EventRowsOf(n) == {r \in 1..Len(events) : events[r].node_id = n}

\* C21: with no relational write in flight, the packet_count of the devices
\* row of every node is the number of rows of the events table of that
\* node (none when the node has no devices row), statements of
\* save_event_to_db failing or not.
C21_CountMatchesEventRows ==
    NoWriteInFlight =>
        /\ \A n \in DOMAIN devices :
            devices[n].packet_count = Cardinality(EventRowsOf(n))
        /\ \A r \in 1..Len(events) : events[r].node_id \in DOMAIN devices

\* C22: every event emitted, on either decode path, has a node_id that is
\* not null.
C22_EventHasNodeId ==
    \A k \in Dispatched :
        Emitted(dispatches[k]) => ~IsNone(dispatches[k].event["node_id"])

\* The signal strength a decoded packet carries: "rx_rssi" in a result of
\* the binary decoder, "rssi" in one of the textual decoder.
CarriedRssi(decoded) ==
    IF "rx_rssi" \in DOMAIN decoded THEN decoded["rx_rssi"] ELSE Get(decoded, "rssi")

\* The signal-to-noise ratio a decoded packet carries.
CarriedSnr(decoded) ==
    IF "rx_snr" \in DOMAIN decoded THEN decoded["rx_snr"] ELSE Get(decoded, "snr")

\* C23: the rssi, snr and hop_limit of every event emitted are those of the
\* decoded packet it was built from, on both decode paths.
C23_EventKeepsSignalMetrics ==
    \A k \in Dispatched :
        LET d == dispatches[k]
        IN
        Emitted(d) =>
            /\ d.event["rssi"] = CarriedRssi(d.decoded)
            /\ d.event["snr"] = CarriedSnr(d.decoded)
            /\ d.event["hop_limit"] = Get(d.decoded, "hop_limit")

====
